---- MODULE Spec2Model ----
(***************************************************************************)
(* TimeChimp MCP server (src/timechimp-mcp-server.js): the tool-call       *)
(* dispatcher, the OData query/filter builders and the authenticated       *)
(* request executor.                                                       *)
(*                                                                         *)
(* Conventions of the model                                                *)
(*  - A JavaScript string is a sequence of atoms (indivisible chunks of    *)
(*    characters); concatenation and template interpolation are \o.  The   *)
(*    atom " and " is the OData conjunction, wherever it occurs.           *)
(*  - An optional value (possibly `undefined`) is a sequence of length 0   *)
(*    or 1: <<>> is undefined, <<v>> is the value v.                       *)
(*  - An argument bag is a function whose DOMAIN is the set of properties  *)
(*    the caller supplied; each property has the type the tool's           *)
(*    inputSchema declares (id/top/skip numbers, count/active_only         *)
(*    booleans, the others strings).                                       *)
(*  - URLSearchParams is a sequence of <<key, value>> pairs.               *)
(***************************************************************************)
EXTENDS Integers, Sequences, FiniteSets, TLC

VARIABLES apiKey, calls, net, fin, fout

vars == <<apiKey, calls, net, fin, fout>>

(***************************************************************************)
(* Bounds                                                                  *)
(***************************************************************************)
MaxCalls == 2

CallIds == 1..MaxCalls

(***************************************************************************)
(* JavaScript values                                                       *)
(***************************************************************************)
NumFields == {"id", "top", "skip"}

BoolFields == {"count", "active_only"}

\* Number.prototype.toString for the numbers the model uses
NumStr(n) ==
  CASE n = 0 -> "0"
    [] n = 5 -> "5"
    [] n = 42 -> "42"
    [] n = 200 -> "200"
    [] n = 204 -> "204"
    [] n = 404 -> "404"
    [] n = 20000 -> "20000"
    [] OTHER -> "NaN"

\* String(v) of the value of property f, as template interpolation computes it
ToStr(f, v) ==
  IF f \in NumFields THEN <<NumStr(v)>>
  ELSE IF f \in BoolFields THEN (IF v THEN <<"true">> ELSE <<"false">>)
  ELSE v

\* the value of property f after destructuring: <<>> when the bag lacks it
Arg(args, f) == IF f \in DOMAIN args THEN <<args[f]>> ELSE <<>>

\* `${x}` for a destructured property: undefined renders as "undefined"
Tmpl(f, opt) == IF opt = <<>> THEN <<"undefined">> ELSE ToStr(f, opt[1])

\* Truthy that tests presence only: 0, false and '' count as given
TruthyPresent(f, opt) == opt # <<>>

\* JavaScript truthiness of a destructured property
Truthy(f, opt) ==
  /\ opt # <<>>
  /\ IF f \in NumFields THEN opt[1] # 0
     ELSE IF f \in BoolFields THEN opt[1]
     ELSE opt[1] # <<>>

\* a default parameter `args = {}`: a missing bag is the empty bag
EmptyBag == [f \in {} |-> <<>>]

DefaultBag(argsOpt) == IF argsOpt = <<>> THEN EmptyBag ELSE argsOpt[1]

(***************************************************************************)
(* URLSearchParams                                                         *)
(***************************************************************************)
NewParams == <<>>

ParamsAppend(params, key, value) == Append(params, <<key, value>>)

HasKey(params, key) == \E i \in 1..Len(params) : params[i][1] = key

FirstIndex(params, key) ==
  CHOOSE i \in 1..Len(params) :
    /\ params[i][1] = key
    /\ \A j \in 1..(i - 1) : params[j][1] # key

RECURSIVE DropKeyAfter(_, _, _, _)
DropKeyAfter(params, key, first, i) ==
  IF i > Len(params) THEN <<>>
  ELSE IF i # first /\ params[i][1] = key
       THEN DropKeyAfter(params, key, first, i + 1)
       ELSE <<params[i]>> \o DropKeyAfter(params, key, first, i + 1)

\* ParamsSet that appends, whether or not the key is there already
ParamsSetAppends(params, key, value) == Append(params, <<key, value>>)

\* ParamsSet that puts a new key in front of the entries instead of after them
ParamsSetInFront(params, key, value) ==
  IF HasKey(params, key)
  THEN [i \in 1..Len(params) |->
          IF params[i][1] = key THEN <<key, value>> ELSE params[i]]
  ELSE <<<<key, value>>>> \o params

\* URLSearchParams.set: overwrite the first entry of the key and delete the
\* others, or append when the key is new
ParamsSet(params, key, value) ==
  IF HasKey(params, key)
  THEN LET first == FirstIndex(params, key)
           kept == DropKeyAfter(params, key, first, 1)
       IN [i \in 1..Len(kept) |->
             IF kept[i][1] = key THEN <<key, value>> ELSE kept[i]]
  ELSE ParamsAppend(params, key, value)

(***************************************************************************)
(* buildQueryParams                                                        *)
(***************************************************************************)
\* if (cond) params.append(key, value)
AppendIf(cond, params, key, value) ==
  params \o (IF cond THEN <<<<key, value>>>> ELSE <<>>)

\* buildQueryParams with `if (count)` in place of `if (count !== undefined)`
buildQueryParamsCountTruthy(args) ==
  LET top == Arg(args, "top")
      skip == Arg(args, "skip")
      count == Arg(args, "count")
      expand == Arg(args, "expand")
      filter == Arg(args, "filter")
      orderby == Arg(args, "orderby")
      p1 == AppendIf(Truthy("top", top), NewParams, "$top", Tmpl("top", top))
      p2 == AppendIf(Truthy("skip", skip), p1, "$skip", Tmpl("skip", skip))
      p3 == AppendIf(Truthy("count", count), p2, "$count", Tmpl("count", count))
      p4 == AppendIf(Truthy("expand", expand), p3, "$expand", Tmpl("expand", expand))
      p5 == AppendIf(Truthy("orderby", orderby), p4, "$orderby", Tmpl("orderby", orderby))
      p6 == AppendIf(Truthy("filter", filter), p5, "$filter", Tmpl("filter", filter))
  IN p6

buildQueryParams(args) ==
  LET top == Arg(args, "top")
      skip == Arg(args, "skip")
      count == Arg(args, "count")
      expand == Arg(args, "expand")
      filter == Arg(args, "filter")
      orderby == Arg(args, "orderby")
      p1 == AppendIf(Truthy("top", top), NewParams, "$top", Tmpl("top", top))
      p2 == AppendIf(Truthy("skip", skip), p1, "$skip", Tmpl("skip", skip))
      p3 == AppendIf(count # <<>>, p2, "$count", Tmpl("count", count))
      p4 == AppendIf(Truthy("expand", expand), p3, "$expand", Tmpl("expand", expand))
      p5 == AppendIf(Truthy("orderby", orderby), p4, "$orderby", Tmpl("orderby", orderby))
      p6 == AppendIf(Truthy("filter", filter), p5, "$filter", Tmpl("filter", filter))
  IN p6

(***************************************************************************)
(* buildFilterExpression                                                   *)
(***************************************************************************)
\* AndJoin without the test of the accumulator: the separator is always put
AndJoinAlways(filterExpression, fragment) ==
  filterExpression \o <<" and ">> \o fragment

\* filterExpression ? `${filterExpression} and ${fragment}` : fragment
AndJoin(filterExpression, fragment) ==
  IF filterExpression # <<>>
  THEN filterExpression \o <<" and ">> \o fragment
  ELSE fragment

\* AddFilter without the guard of the source: the fragment is always added
AddFilterAlways(cond, filterExpression, fragment) ==
  IF filterExpression # <<>>
  THEN filterExpression \o <<" and ">> \o fragment
  ELSE fragment

\* AddFilter that assigns the fragment instead of joining it
AddFilterOverwrite(cond, filterExpression, fragment) ==
  IF cond THEN fragment ELSE filterExpression

AddFilter(cond, filterExpression, fragment) ==
  IF cond THEN AndJoin(filterExpression, fragment) ELSE filterExpression

\* the if-blocks that follow the first one, run in order on the accumulator
RECURSIVE RunBlocks(_, _)
RunBlocks(blocks, filterExpression) ==
  IF blocks = <<>> THEN filterExpression
  ELSE RunBlocks(Tail(blocks),
                 AddFilter(Head(blocks).if, filterExpression, Head(blocks).fragment))

Block(cond, fragment) == [if |-> cond, fragment |-> fragment]

buildFilterExpression(args) ==
  LET active_only == Arg(args, "active_only")
      user_id == Arg(args, "user_id")
      project_id == Arg(args, "project_id")
      customer_id == Arg(args, "customer_id")
      from_date == Arg(args, "from_date")
      to_date == Arg(args, "to_date")
      filter == Arg(args, "filter")
  IN RunBlocks(
       <<Block(Truthy("user_id", user_id),
               <<"user/id eq ">> \o Tmpl("user_id", user_id)),
         Block(Truthy("project_id", project_id),
               <<"project/id eq ">> \o Tmpl("project_id", project_id)),
         Block(Truthy("customer_id", customer_id),
               <<"customer/id eq ">> \o Tmpl("customer_id", customer_id)),
         Block(Truthy("from_date", from_date),
               <<"date ge ">> \o Tmpl("from_date", from_date)),
         Block(Truthy("to_date", to_date),
               <<"date le ">> \o Tmpl("to_date", to_date)),
         Block(Truthy("filter", filter), Tmpl("filter", filter))>>,
       IF Truthy("active_only", active_only) THEN <<"active eq true">> ELSE <<>>)

(***************************************************************************)
(* Errors and responses                                                    *)
(***************************************************************************)
\* new McpError(code, message); error.message carries the message given
McpError(code, message) == [mcp |-> TRUE, code |-> code, message |-> message]

\* any other exception (TypeError, SyntaxError, a rejected fetch)
JsError(message) == [mcp |-> FALSE, code |-> "none", message |-> message]

Returned(value) == [threw |-> FALSE, error |-> <<>>, value |-> <<value>>]

Thrown(error) == [threw |-> TRUE, error |-> <<error>>, value |-> <<>>]

\* what the remote service may say for a status: its reason phrase
StatusText(status) ==
  CASE status = 200 -> <<"OK">>
    [] status = 204 -> <<"No Content">>
    [] status = 404 -> <<"Not Found">>
    [] OTHER -> <<>>

Statuses == {200, 204, 404}

JsonBody == <<"{\"id\":42}">>

Bodies == {<<>>, <<"Not Found">>, JsonBody}

\* every way the awaited fetch can settle: it rejects (no response), or a
\* response arrives whose body may or may not be readable to the end
FetchOutcomes ==
  {[rejected |-> TRUE, message |-> <<"fetch failed">>, status |-> 0,
    statusText |-> <<>>, body |-> <<>>, readFails |-> FALSE]}
  \cup
  {[rejected |-> FALSE, message |-> <<>>, status |-> st,
    statusText |-> StatusText(st), body |-> b, readFails |-> rf] :
     st \in Statuses, b \in Bodies, rf \in BOOLEAN}

\* Response.ok
ResponseOk(response) == response.status >= 200 /\ response.status <= 299

\* await response.text()
ResponseText(response) ==
  IF response.readFails THEN Thrown(JsError(<<"terminated">>))
  ELSE Returned(response.body)

\* JSON.parse of a body text
JsonParse(text) ==
  IF text = JsonBody THEN Returned([id |-> 42])
  ELSE IF text = <<>> THEN Thrown(JsError(<<"Unexpected end of JSON input">>))
  ELSE Thrown(JsError(<<"Unexpected token">>))

\* await response.json()
ResponseJson(response) ==
  IF response.readFails THEN Thrown(JsError(<<"terminated">>))
  ELSE JsonParse(response.body)

\* JsonStringify2 of a wrapper object { data } in place of the data
JsonStringify2Wrapped(data) ==
  IF data = [id |-> 42] THEN <<"{\n  \"data\": {\n    \"id\": 42\n  }\n}">>
  ELSE <<"{\n  \"data\": null\n}">>

\* JSON.stringify(data, null, 2)
JsonStringify2(data) ==
  IF data = [id |-> 42] THEN <<"{\n  \"id\": 42\n}">> ELSE <<"null">>

(***************************************************************************)
(* makeRequest                                                             *)
(***************************************************************************)
baseUrl == <<"https://v2.api.timechimp.com">>

ApiKeyError ==
  McpError("InvalidRequest", <<"TIMECHIMP_API_KEY environment variable is required">>)

\* Method that loses options.method: every request goes out as a GET
MethodAlwaysGet(options) == "GET"

\* options.method, the fetch default being GET
Method(options) == IF options.method = <<>> THEN "GET" ELSE options.method[1]

Headers(key, options) ==
  [h \in {"api-key", "Content-Type", "Accept", "api-version"} \cup DOMAIN options.headers |->
     IF h \in DOMAIN options.headers THEN options.headers[h]
     ELSE CASE h = "api-key" -> key
            [] h = "Content-Type" -> <<"application/json">>
            [] h = "Accept" -> <<"application/json">>
            [] OTHER -> <<"2.0">>]

\* makeRequestStart that tests the key against undefined only
makeRequestStartUndefinedOnly(key, endpoint, options) ==
  IF key = <<>>
  THEN Thrown(ApiKeyError)
  ELSE Returned([url |-> baseUrl \o endpoint.path,
                 query |-> endpoint.query,
                 method |-> Method(options),
                 headers |-> Headers(key[1], options),
                 body |-> options.body])

\* makeRequest up to its first suspension: the credential check, then the
\* request handed to fetch
makeRequestStart(key, endpoint, options) ==
  IF key = <<>> \/ key[1] = <<>>
  THEN Thrown(ApiKeyError)
  ELSE Returned([url |-> baseUrl \o endpoint.path,
                 query |-> endpoint.query,
                 method |-> Method(options),
                 headers |-> Headers(key[1], options),
                 body |-> options.body])

\* the catch block of makeRequest
makeRequestCatch(error) ==
  IF error.mcp THEN Thrown(error)
  ELSE Thrown(McpError("InternalError", <<"Request failed: ">> \o error.message))

\* makeRequest from the settlement of fetch to its return or throw
makeRequestFinish(outcome) ==
  IF outcome.rejected THEN makeRequestCatch(JsError(outcome.message))
  ELSE IF ~ResponseOk(outcome)
  THEN LET errorText == ResponseText(outcome)
       IN IF errorText.threw THEN makeRequestCatch(errorText.error[1])
          ELSE makeRequestCatch(
                 McpError("InternalError",
                          <<"TimeChimp API error: ", NumStr(outcome.status), " ">>
                          \o outcome.statusText \o <<" - ">> \o errorText.value[1]))
  ELSE LET data == ResponseJson(outcome)
       IN IF data.threw THEN makeRequestCatch(data.error[1])
          ELSE Returned(data.value[1])

\* Fetches with the request sent a second time
FetchesTwice(c, started) ==
  IF started.threw THEN <<>>
  ELSE <<[call |-> c, request |-> started.value[1]],
         [call |-> c, request |-> started.value[1]]>>

\* Fetches that remembers what was sent: a request equal to one already
\* handed to fetch is not sent again
FetchesUnlessSent(c, started) ==
  IF started.threw \/ \E i \in 1..Len(net) : net[i].request = started.value[1]
  THEN <<>>
  ELSE <<[call |-> c, request |-> started.value[1]]>>

\* the requests this call hands to fetch
Fetches(c, started) ==
  IF started.threw THEN <<>> ELSE <<[call |-> c, request |-> started.value[1]]>>

(***************************************************************************)
(* Request bodies                                                          *)
(***************************************************************************)
\* an object literal { f1, f2, ... } over destructured properties: the
\* properties in declaration order, each with its (possibly undefined) value
RECURSIVE ObjectOf(_, _)
ObjectOf(args, fields) ==
  IF fields = <<>> THEN <<>>
  ELSE <<<<Head(fields), Arg(args, Head(fields))>>>> \o ObjectOf(args, Tail(fields))

\* ...(cond && { f }): the property is spread in only when cond holds
SpreadIf(cond, args, f) == IF cond THEN <<<<f, Arg(args, f)>>>> ELSE <<>>

\* JSON.stringify(object): properties whose value is undefined are left out
RECURSIVE JsonStringify(_)
JsonStringify(object) ==
  IF object = <<>> THEN <<>>
  ELSE (IF Head(object)[2] = <<>> THEN <<>>
        ELSE <<<<Head(object)[1], Head(object)[2][1]>>>>)
       \o JsonStringify(Tail(object))

NoHeaders == [h \in {} |-> <<>>]

NoOptions == [method |-> <<>>, body |-> <<>>, headers |-> NoHeaders]

WithMethod(method) == [method |-> <<method>>, body |-> <<>>, headers |-> NoHeaders]

WithBody(method, object) ==
  [method |-> <<method>>, body |-> <<JsonStringify(object)>>, headers |-> NoHeaders]

\* `${endpoint}${params.toString() ? `?${params.toString()}` : ''}`: the
\* query string is there exactly when params has an entry
Endpoint(path, params) == [path |-> path, query |-> params]

(***************************************************************************)
(* Operations.  Each one is the handler up to its call of makeRequest:     *)
(* the endpoint and options it passes, the text its catch block puts       *)
(* before error.message, and the text it returns on success when that is   *)
(* not JSON.stringify(data, null, 2).                                      *)
(***************************************************************************)
Operation(endpoint, options, errorText, successText) ==
  [endpoint |-> endpoint, options |-> options,
   errorText |-> errorText, successText |-> successText]

handleGetRequest(endpoint, argsOpt, defaultOrderBy) ==
  LET args == DefaultBag(argsOpt)
      params == buildQueryParams(args)
      filterExpression == buildFilterExpression(args)
      ordered == AppendIf(defaultOrderBy # <<>> /\ ~Truthy("orderby", Arg(args, "orderby")),
                          params, "$orderby", Tmpl("orderby", defaultOrderBy))
      filtered == IF filterExpression # <<>>
                  THEN ParamsSet(ordered, "$filter", filterExpression)
                  ELSE ordered
  IN Operation(Endpoint(endpoint, filtered), NoOptions,
               <<"Error retrieving data from ">> \o endpoint \o <<": ">>, <<>>)

\* handleGetByIdRequest that appends $expand without testing expand
handleGetByIdRequestExpandAlways(endpoint, id, expand) ==
  Operation(Endpoint(endpoint \o <<"/">> \o Tmpl("id", id),
                     ParamsAppend(NewParams, "$expand", Tmpl("expand", expand))),
            NoOptions,
            <<"Error retrieving data from ">> \o endpoint \o <<"/">>
            \o Tmpl("id", id) \o <<": ">>, <<>>)

handleGetByIdRequest(endpoint, id, expand) ==
  LET params == AppendIf(Truthy("expand", expand), NewParams, "$expand",
                         Tmpl("expand", expand))
  IN Operation(Endpoint(endpoint \o <<"/">> \o Tmpl("id", id), params), NoOptions,
               <<"Error retrieving data from ">> \o endpoint \o <<"/">>
               \o Tmpl("id", id) \o <<": ">>, <<>>)

\* the by-id handlers: const { id, expand } = args
GetById(endpoint, argsOpt) ==
  handleGetByIdRequest(endpoint, Arg(DefaultBag(argsOpt), "id"),
                       Arg(DefaultBag(argsOpt), "expand"))

IdPath(base, argsOpt) == base \o <<"/">> \o Tmpl("id", Arg(DefaultBag(argsOpt), "id"))

\* the create handlers: POST of the body to the base path
Create(base, object, what) ==
  Operation(Endpoint(base, NewParams), WithBody("POST", object),
            <<"Error creating ", what, ": ">>, <<>>)

\* the update handlers: PUT of the body to `${base}/${id}`
Update(base, argsOpt, object, what) ==
  Operation(Endpoint(IdPath(base, argsOpt), NewParams), WithBody("PUT", object),
            <<"Error updating ", what, ": ">>, <<>>)

\* the delete handlers: DELETE of `${base}/${id}`, a confirmation on success
Delete(base, argsOpt, what, What) ==
  Operation(Endpoint(IdPath(base, argsOpt), NewParams), WithMethod("DELETE"),
            <<"Error deleting ", what, ": ">>,
            <<<<What, " ">> \o Tmpl("id", Arg(DefaultBag(argsOpt), "id"))
              \o <<" deleted successfully">>>>)

\* inputSchema of the status tools: maxItems of expenses / mileages
maxItems == 100

\* the first maxItems entries of a list
Capped(list) == IF Len(list) > maxItems THEN SubSeq(list, 1, maxItems) ELSE list

\* StatusUpdate that cuts the list of identifiers down to maxItems entries
StatusUpdateCapped(path, object, what) ==
  Operation(Endpoint(path, NewParams),
            WithBody("PUT",
                     [i \in 1..Len(object) |->
                        IF object[i][1] \in {"mileages", "expenses"} /\ object[i][2] # <<>>
                        THEN <<object[i][1], <<Capped(object[i][2][1])>>>>
                        ELSE object[i]]),
            <<"Error updating ", what, ": ">>, <<>>)

\* the status handlers: PUT of the body to a fixed sub-path
StatusUpdate(path, object, what) ==
  Operation(Endpoint(path, NewParams), WithBody("PUT", object),
            <<"Error updating ", what, ": ">>, <<>>)

\* StatusHistory that takes its query from handleGetRequest, composed filter
\* and all
StatusHistoryComposed(base, argsOpt, what) ==
  Operation(Endpoint(IdPath(base, argsOpt) \o <<"/statusHistory">>,
                     handleGetRequest(base, argsOpt, <<>>).endpoint.query),
            NoOptions, <<"Error retrieving ", what, " status history: ">>, <<>>)

\* the status-history handlers build their own query
StatusHistory(base, argsOpt, what) ==
  LET args == DefaultBag(argsOpt)
      top == Arg(args, "top")
      skip == Arg(args, "skip")
      count == Arg(args, "count")
      expand == Arg(args, "expand")
      filter == Arg(args, "filter")
      orderby == Arg(args, "orderby")
      p1 == AppendIf(Truthy("top", top), NewParams, "$top", Tmpl("top", top))
      p2 == AppendIf(Truthy("skip", skip), p1, "$skip", Tmpl("skip", skip))
      p3 == AppendIf(count # <<>>, p2, "$count", Tmpl("count", count))
      p4 == AppendIf(Truthy("expand", expand), p3, "$expand", Tmpl("expand", expand))
      p5 == AppendIf(Truthy("filter", filter), p4, "$filter", Tmpl("filter", filter))
      p6 == AppendIf(Truthy("orderby", orderby), p5, "$orderby", Tmpl("orderby", orderby))
  IN Operation(Endpoint(IdPath(base, argsOpt) \o <<"/statusHistory">>, p6), NoOptions,
               <<"Error retrieving ", what, " status history: ">>, <<>>)

ProjectFields == <<"name", "active", "code", "notes", "color", "startDate", "endDate", "invoicing", "budget", "customer", "mainProject", "subprojects", "managers", "tags", "projectTasks", "projectUsers">>

getProjects(args) == handleGetRequest(<<"/projects">>, args, <<>>)

getProjectById(args) == GetById(<<"/projects">>, args)

createProject(args) ==
  Create(<<"/projects">>, ObjectOf(DefaultBag(args), ProjectFields), "project")

updateProject(args) ==
  Update(<<"/projects">>, args, ObjectOf(DefaultBag(args), ProjectFields), "project")

deleteProject(args) == Delete(<<"/projects">>, args, "project", "Project")

getProjectInsights(args) ==
  Operation(Endpoint(IdPath(<<"/projects">>, args) \o <<"/insights">>, NewParams),
            NoOptions, <<"Error retrieving project insights: ">>, <<>>)

getUsers(args) == handleGetRequest(<<"/users">>, args, <<>>)

getUserById(args) == GetById(<<"/users">>, args)

createUser(args) ==
  Create(<<"/users">>, ObjectOf(DefaultBag(args), <<"userName", "displayName", "language", "role", "sendInvitation", "contracts">>), "user")

updateUser(args) ==
  Update(<<"/users">>, args, ObjectOf(DefaultBag(args), <<"displayName", "language", "employeeNumber", "badgeNumber", "citizenServiceNumber", "role", "tags", "contracts">>), "user")

getTimeEntries(args) == handleGetRequest(<<"/times">>, args, <<>>)

getTimeEntryById(args) == GetById(<<"/times">>, args)

getContacts(args) == handleGetRequest(<<"/contacts">>, args, <<>>)

getContactById(args) == GetById(<<"/contacts">>, args)

createContact(argsOpt) ==
  LET args == DefaultBag(argsOpt)
      contactData ==
        ObjectOf(args, <<"name">>)
        \o SpreadIf(Truthy("jobTitle", Arg(args, "jobTitle")), args, "jobTitle")
        \o SpreadIf(Truthy("email", Arg(args, "email")), args, "email")
        \o SpreadIf(Truthy("phone", Arg(args, "phone")), args, "phone")
        \o SpreadIf(Arg(args, "useForInvoicing") # <<>>, args, "useForInvoicing")
        \o SpreadIf(Arg(args, "active") # <<>>, args, "active")
        \o SpreadIf(Truthy("customers", Arg(args, "customers")), args, "customers")
  IN Create(<<"/contacts">>, contactData, "contact")

updateContact(argsOpt) ==
  LET args == DefaultBag(argsOpt)
      contactData ==
        ObjectOf(args, <<"name">>)
        \o SpreadIf(Arg(args, "jobTitle") # <<>>, args, "jobTitle")
        \o SpreadIf(Arg(args, "email") # <<>>, args, "email")
        \o SpreadIf(Arg(args, "phone") # <<>>, args, "phone")
        \o SpreadIf(Arg(args, "useForInvoicing") # <<>>, args, "useForInvoicing")
        \o SpreadIf(Arg(args, "active") # <<>>, args, "active")
        \o SpreadIf(Arg(args, "customers") # <<>>, args, "customers")
  IN Update(<<"/contacts">>, argsOpt, contactData, "contact")

deleteContact(args) == Delete(<<"/contacts">>, args, "contact", "Contact")

CustomerFields == <<"name", "active", "relationId", "address", "phone", "email", "website", "paymentPeriod", "hourlyRate", "mileageRate", "iban", "bic", "vatNumber", "kvkNumber", "invoiceAddress", "notes", "prospect", "vatRate", "tags", "contacts">>

getCustomers(args) == handleGetRequest(<<"/customers">>, args, <<>>)

getCustomerById(args) == GetById(<<"/customers">>, args)

createCustomer(args) ==
  Create(<<"/customers">>, ObjectOf(DefaultBag(args), CustomerFields), "customer")

updateCustomer(args) ==
  Update(<<"/customers">>, args, ObjectOf(DefaultBag(args), CustomerFields), "customer")

deleteCustomer(args) == Delete(<<"/customers">>, args, "customer", "Customer")

getTasks(args) == handleGetRequest(<<"/tasks">>, args, <<>>)

getTaskById(args) == GetById(<<"/tasks">>, args)

getInvoices(args) == handleGetRequest(<<"/invoices">>, args, <<>>)

getInvoiceById(args) == GetById(<<"/invoices">>, args)

getExpenses(args) == handleGetRequest(<<"/expenses">>, args, <<>>)

getExpenseById(args) == GetById(<<"/expenses">>, args)

MileageFields == <<"date", "fromAddress", "toAddress", "notes", "distance", "billable", "type", "customer", "project", "vehicle", "user">>

getMileage(args) == handleGetRequest(<<"/mileage">>, args, <<>>)

getMileageById(args) == GetById(<<"/mileage">>, args)

createMileage(args) ==
  Create(<<"/mileage">>, ObjectOf(DefaultBag(args), MileageFields), "mileage")

updateMileage(args) ==
  Update(<<"/mileage">>, args, ObjectOf(DefaultBag(args), MileageFields), "mileage")

deleteMileage(args) == Delete(<<"/mileage">>, args, "mileage", "Mileage")

updateMileageStatus(args) ==
  StatusUpdate(<<"/mileage", "/status">>,
               ObjectOf(DefaultBag(args), <<"message", "mileages", "status">>),
               "mileage status")

updateMileageClientStatus(args) ==
  StatusUpdate(<<"/mileage", "/clientStatus">>,
               ObjectOf(DefaultBag(args), <<"clientStatus", "message", "mileages">>),
               "mileage client status")

getMileageStatusHistory(args) == StatusHistory(<<"/mileage">>, args, "mileage")

getMileageVehicles(args) == handleGetRequest(<<"/mileageVehicles">>, args, <<>>)

getMileageVehicleById(args) == GetById(<<"/mileageVehicles">>, args)

getTags(args) == handleGetRequest(<<"/tags">>, args, <<>>)

getTagById(args) == GetById(<<"/tags">>, args)

ExpenseFields == <<"date", "notes", "quantity", "rate", "billable", "customer", "project", "product", "user", "vatRate">>

createExpense(args) ==
  Create(<<"/expenses">>, ObjectOf(DefaultBag(args), ExpenseFields), "expense")

updateExpense(args) ==
  Update(<<"/expenses">>, args, ObjectOf(DefaultBag(args), ExpenseFields), "expense")

deleteExpense(args) == Delete(<<"/expenses">>, args, "expense", "Expense")

updateExpenseStatus(args) ==
  StatusUpdate(<<"/expenses", "/status">>,
               ObjectOf(DefaultBag(args), <<"message", "expenses", "status">>),
               "expense status")

updateExpenseClientStatus(args) ==
  StatusUpdate(<<"/expenses", "/clientStatus">>,
               ObjectOf(DefaultBag(args), <<"clientStatus", "message", "expenses">>),
               "expense client status")

getExpenseStatusHistory(args) == StatusHistory(<<"/expenses">>, args, "expense")

(***************************************************************************)
(* The CallToolRequestSchema handler                                       *)
(***************************************************************************)
\* the switch on the tool name; the default arm throws
switch(name, args) ==
  CASE name = "get_projects" -> Returned(getProjects(args))
    [] name = "get_project_by_id" -> Returned(getProjectById(args))
    [] name = "create_project" -> Returned(createProject(args))
    [] name = "update_project" -> Returned(updateProject(args))
    [] name = "delete_project" -> Returned(deleteProject(args))
    [] name = "get_project_insights" -> Returned(getProjectInsights(args))
    [] name = "get_users" -> Returned(getUsers(args))
    [] name = "get_user_by_id" -> Returned(getUserById(args))
    [] name = "create_user" -> Returned(createUser(args))
    [] name = "update_user" -> Returned(updateUser(args))
    [] name = "get_time_entries" -> Returned(getTimeEntries(args))
    [] name = "get_time_entry_by_id" -> Returned(getTimeEntryById(args))
    [] name = "get_contacts" -> Returned(getContacts(args))
    [] name = "get_contact_by_id" -> Returned(getContactById(args))
    [] name = "create_contact" -> Returned(createContact(args))
    [] name = "update_contact" -> Returned(updateContact(args))
    [] name = "delete_contact" -> Returned(deleteContact(args))
    [] name = "get_customers" -> Returned(getCustomers(args))
    [] name = "get_customer_by_id" -> Returned(getCustomerById(args))
    [] name = "create_customer" -> Returned(createCustomer(args))
    [] name = "update_customer" -> Returned(updateCustomer(args))
    [] name = "delete_customer" -> Returned(deleteCustomer(args))
    [] name = "get_tasks" -> Returned(getTasks(args))
    [] name = "get_task_by_id" -> Returned(getTaskById(args))
    [] name = "get_invoices" -> Returned(getInvoices(args))
    [] name = "get_invoice_by_id" -> Returned(getInvoiceById(args))
    [] name = "get_expenses" -> Returned(getExpenses(args))
    [] name = "get_expense_by_id" -> Returned(getExpenseById(args))
    [] name = "create_expense" -> Returned(createExpense(args))
    [] name = "update_expense" -> Returned(updateExpense(args))
    [] name = "delete_expense" -> Returned(deleteExpense(args))
    [] name = "update_expense_status" -> Returned(updateExpenseStatus(args))
    [] name = "update_expense_client_status" -> Returned(updateExpenseClientStatus(args))
    [] name = "get_expense_status_history" -> Returned(getExpenseStatusHistory(args))
    [] name = "get_mileage" -> Returned(getMileage(args))
    [] name = "get_mileage_by_id" -> Returned(getMileageById(args))
    [] name = "create_mileage" -> Returned(createMileage(args))
    [] name = "update_mileage" -> Returned(updateMileage(args))
    [] name = "delete_mileage" -> Returned(deleteMileage(args))
    [] name = "update_mileage_status" -> Returned(updateMileageStatus(args))
    [] name = "update_mileage_client_status" -> Returned(updateMileageClientStatus(args))
    [] name = "get_mileage_status_history" -> Returned(getMileageStatusHistory(args))
    [] name = "get_mileage_vehicles" -> Returned(getMileageVehicles(args))
    [] name = "get_mileage_vehicle_by_id" -> Returned(getMileageVehicleById(args))
    [] name = "get_tags" -> Returned(getTags(args))
    [] name = "get_tag_by_id" -> Returned(getTagById(args))
    [] OTHER -> Thrown(McpError("MethodNotFound", <<"Unknown tool: ", name>>))

\* CallToolCatch that returns the error as an envelope instead of throwing
CallToolCatchReturns(error) ==
  Returned([isError |-> TRUE, text |-> error.message])

\* the catch block around the switch
CallToolCatch(error) ==
  IF error.mcp THEN Thrown(error)
  ELSE Thrown(McpError("InternalError", <<"Tool execution failed: ">> \o error.message))

\* Envelope whose catch branch leaves out isError
EnvelopeNoFlag(op, made) ==
  IF made.threw
  THEN [isError |-> FALSE, text |-> op.errorText \o made.error[1].message]
  ELSE [isError |-> FALSE,
        text |-> IF op.successText # <<>> THEN op.successText[1]
                 ELSE JsonStringify2(made.value[1])]

\* the value an operation returns once makeRequest has returned or thrown:
\* { content: [{ type: 'text', text }] }, with isError: true from its catch
Envelope(op, made) ==
  IF made.threw
  THEN [isError |-> TRUE, text |-> op.errorText \o made.error[1].message]
  ELSE [isError |-> FALSE,
        text |-> IF op.successText # <<>> THEN op.successText[1]
                 ELSE JsonStringify2(made.value[1])]

(***************************************************************************)
(* Inputs                                                                  *)
(***************************************************************************)
\* the names the switch has an arm for
ToolNames ==
  {"get_projects", "get_project_by_id", "create_project", "update_project",
   "delete_project", "get_project_insights", "get_users", "get_user_by_id",
   "create_user", "update_user", "get_time_entries",
   "get_time_entry_by_id", "get_contacts", "get_contact_by_id",
   "create_contact", "update_contact", "delete_contact", "get_customers",
   "get_customer_by_id", "create_customer", "update_customer",
   "delete_customer", "get_tasks", "get_task_by_id", "get_invoices",
   "get_invoice_by_id", "get_expenses", "get_expense_by_id",
   "create_expense", "update_expense", "delete_expense",
   "update_expense_status", "update_expense_client_status",
   "get_expense_status_history", "get_mileage", "get_mileage_by_id",
   "create_mileage", "update_mileage", "delete_mileage",
   "update_mileage_status", "update_mileage_client_status",
   "get_mileage_status_history", "get_mileage_vehicles",
   "get_mileage_vehicle_by_id", "get_tags", "get_tag_by_id"}

\* the names a tools/call request may carry
Names == ToolNames \cup {"get_everything"}

Option(values) == {<<>>} \cup {<<v>> : v \in values}

\* the bag that has exactly the properties some choice gave a value to
BagOf(choice) ==
  [f \in {g \in DOMAIN choice : choice[g] # <<>>} |-> choice[f][1]]

CompoundFilter == <<"type eq 'Business'", " and ", "billable eq true">>

\* the argument bags of the tool calls
Bags ==
  {BagOf(choice) : choice \in
     [id : Option({42}), expand : Option({<<"customer">>}),
      filter : Option({CompoundFilter}), active_only : Option({TRUE}),
      user_id : Option({<<"7">>}), name : Option({<<"Acme">>})]}

\* request.params.arguments: absent, or a bag
Arguments == {<<>>} \cup {<<bag>> : bag \in Bags}

\* process.env.TIMECHIMP_API_KEY: unset, empty, or a key
ApiKeys == {<<>>, <<<<>>>>, <<<<"test-key-123">>>>}

(***************************************************************************)
(* State                                                                   *)
(***************************************************************************)
Idle ==
  [pc |-> "idle", name |-> "", args |-> <<>>, op |-> <<>>,
   outcome |-> <<>>, result |-> <<>>]

\* the constructor; no tool call has arrived yet
Init ==
  /\ apiKey \in ApiKeys
  /\ calls = [c \in CallIds |-> Idle]
  /\ net = <<>>
  /\ fin = EmptyBag
  /\ fout = <<>>

\* the handler runs from the arrival of tools/call to its first suspension:
\* it throws (unknown tool), settles at once (makeRequest threw before
\* fetch), or hands a request to fetch and waits
CallTool(c, name, args) ==
  /\ calls[c].pc = "idle"
  /\ \E routed \in {switch(name, args)} :
       IF routed.threw
       THEN /\ calls' = [calls EXCEPT ![c] =
                 [pc |-> "done", name |-> name, args |-> args, op |-> <<>>,
                  outcome |-> <<>>, result |-> <<CallToolCatch(routed.error[1])>>]]
            /\ net' = net
       ELSE \E op \in {routed.value[1]} :
              \E started \in {makeRequestStart(apiKey, op.endpoint, op.options)} :
                /\ net' = net \o Fetches(c, started)
                /\ calls' = [calls EXCEPT ![c] =
                     IF started.threw
                     THEN [pc |-> "done", name |-> name, args |-> args, op |-> <<op>>,
                           outcome |-> <<>>,
                           result |-> <<Returned(Envelope(op, started))>>]
                     ELSE [pc |-> "awaiting", name |-> name, args |-> args,
                           op |-> <<op>>, outcome |-> <<>>, result |-> <<>>]]
  /\ UNCHANGED <<apiKey, fin, fout>>

\* FetchSettles on a connection that answers in the order of the requests:
\* a fetch settles only when no earlier request still waits
FetchSettlesInCallOrder(c, outcome) ==
  /\ calls[c].pc = "awaiting"
  /\ \A i \in 1..Len(net) :
       calls[net[i].call].pc = "awaiting" =>
         \E j \in 1..Len(net) : net[j].call = c /\ j <= i
  /\ calls' = [calls EXCEPT ![c] =
       [@ EXCEPT !.pc = "done", !.outcome = <<outcome>>,
                 !.result = <<Returned(Envelope(calls[c].op[1],
                                                makeRequestFinish(outcome)))>>]]
  /\ UNCHANGED <<apiKey, net, fin, fout>>

\* FetchSettles that takes the operation from a slot every call writes when
\* it hands its request to fetch, in place of the call's own local
FetchSettlesSharedSlot(c, outcome) ==
  /\ calls[c].pc = "awaiting"
  /\ calls' = [calls EXCEPT ![c] =
       [@ EXCEPT !.pc = "done", !.outcome = <<outcome>>,
                 !.result = <<Returned(Envelope(calls[net[Len(net)].call].op[1],
                                                makeRequestFinish(outcome)))>>]]
  /\ UNCHANGED <<apiKey, net, fin, fout>>

\* the awaited fetch settles and the handler runs to its end
FetchSettles(c, outcome) ==
  /\ calls[c].pc = "awaiting"
  /\ calls' = [calls EXCEPT ![c] =
       [@ EXCEPT !.pc = "done", !.outcome = <<outcome>>,
                 !.result = <<Returned(Envelope(calls[c].op[1],
                                                makeRequestFinish(outcome)))>>]]
  /\ UNCHANGED <<apiKey, net, fin, fout>>

RECURSIVE WithoutCall(_, _)
WithoutCall(log, c) ==
  IF log = <<>> THEN <<>>
  ELSE (IF Head(log).call = c THEN <<>> ELSE <<Head(log)>>) \o WithoutCall(Tail(log), c)

\* the protocol layer has taken the result; nothing of the call remains
Return(c) ==
  /\ calls[c].pc = "done"
  /\ calls' = [calls EXCEPT ![c] = Idle]
  /\ net' = WithoutCall(net, c)
  /\ UNCHANGED <<apiKey, fin, fout>>

\* one tool call at a time
Dispatch(c) ==
  /\ \A d \in CallIds : calls[d].pc = "idle"
  /\ \E name \in Names, args \in Arguments : CallTool(c, name, args)

Settle(c) == \E outcome \in FetchOutcomes : FetchSettles(c, outcome)

Next == \E c \in CallIds : Dispatch(c) \/ Settle(c) \/ Return(c)

Spec == Init /\ [][Next]_vars

(***************************************************************************)
(* The filter composer on its own, and the list operations that use it     *)
(***************************************************************************)
FilterSources ==
  <<"active_only", "user_id", "project_id", "customer_id", "from_date", "to_date", "filter">>

\* the tools whose handler is handleGetRequest
ListOperations ==
  {"get_projects", "get_users", "get_time_entries", "get_contacts", "get_customers",
   "get_tasks", "get_invoices", "get_expenses", "get_mileage", "get_mileage_vehicles",
   "get_tags"}

\* bags over the seven filter sources (absent, empty or falsy, set) and two
\* properties that are not filter sources
FilterBags ==
  {BagOf(choice) : choice \in
     [active_only : Option({TRUE, FALSE}),
      user_id : Option({<<>>, <<"7">>}),
      project_id : Option({<<"3">>}),
      customer_id : Option({<<"9">>}),
      from_date : Option({<<"2024-01-01">>}),
      to_date : Option({<<"2024-01-31">>}),
      filter : Option({<<>>, <<"billable eq true">>, CompoundFilter}),
      orderby : Option({<<"name desc">>}),
      top : Option({5})]}

FilterInit ==
  /\ apiKey = <<<<"test-key-123">>>>
  /\ calls = [c \in CallIds |-> Idle]
  /\ net = <<>>
  /\ fin \in FilterBags
  /\ fout = <<>>

\* buildFilterExpression(fin)
ComposeFilter ==
  /\ fout = <<>>
  /\ fout' = <<buildFilterExpression(fin)>>
  /\ UNCHANGED <<apiKey, calls, net, fin>>

\* a list tool is called with the bag fin
ListCall(c) ==
  /\ \A d \in CallIds : calls[d].pc = "idle"
  /\ \E name \in ListOperations : CallTool(c, name, <<fin>>)

FilterNext == ComposeFilter \/ \E c \in CallIds : ListCall(c)

SpecFilter == FilterInit /\ [][FilterNext]_vars

(***************************************************************************)
(* The query builder on its own, and the list operations that use it       *)
(***************************************************************************)
\* bags over the six properties buildQueryParams reads (absent, falsy, set)
\* and the active_only flag of the filter composer
QueryBags ==
  {BagOf(choice) : choice \in
     [top : Option({0, 5, 20000}),
      skip : Option({0, 5}),
      count : Option({TRUE, FALSE}),
      expand : Option({<<"customer">>}),
      orderby : Option({<<>>, <<"name desc">>}),
      filter : Option({<<"billable eq true">>}),
      active_only : Option({TRUE})]}

QueryInit ==
  /\ apiKey = <<<<"test-key-123">>>>
  /\ calls = [c \in CallIds |-> Idle]
  /\ net = <<>>
  /\ fin \in QueryBags
  /\ fout = <<>>

\* buildQueryParams(fin)
BuildQuery ==
  /\ fout = <<>>
  /\ fout' = <<buildQueryParams(fin)>>
  /\ UNCHANGED <<apiKey, calls, net, fin>>

\* a list tool is called with the bag fin
QueryCall(c) ==
  /\ \A d \in CallIds : calls[d].pc = "idle"
  /\ \E name \in ListOperations : CallTool(c, name, <<fin>>)

QueryNext == BuildQuery \/ \E c \in CallIds : QueryCall(c)

SpecQuery == QueryInit /\ [][QueryNext]_vars

(***************************************************************************)
(* makeRequest on its own, called with options of every shape              *)
(***************************************************************************)
\* options.headers as a caller of makeRequest may give it: none, a header
\* of its own, or one that has the name of a fixed header
CallerHeaders ==
  {NoHeaders,
   [h \in {"X-Request-Id"} |-> <<"r-1">>],
   [h \in {"api-key"} |-> <<"other-key">>],
   [h \in {"api-version"} |-> <<"1.0">>],
   [h \in {"Accept", "X-Request-Id"} |-> <<"text/plain">>]}

ExecutorOptions ==
  {[method |-> m, body |-> b, headers |-> h] :
     m \in {<<>>, <<"PUT">>, <<"DELETE">>},
     b \in {<<>>, <<<<<<"name", <<"Acme">>>>>>>>},
     h \in CallerHeaders}

ExecutorEndpoints ==
  {Endpoint(<<"/projects">>, NewParams), Endpoint(<<"/tags", "/", "42">>, NewParams)}

\* makeRequest(endpoint, options) from its call to its first suspension
MakeRequest(c, endpoint, options) ==
  /\ \A d \in CallIds : calls[d].pc = "idle"
  /\ \E started \in {makeRequestStart(apiKey, endpoint, options)} :
       /\ net' = net \o Fetches(c, started)
       /\ calls' = [calls EXCEPT ![c] =
            [pc |-> IF started.threw THEN "done" ELSE "awaiting",
             name |-> "makeRequest", args |-> <<>>,
             op |-> <<Operation(endpoint, options, <<>>, <<>>)>>,
             outcome |-> <<>>,
             result |-> IF started.threw THEN <<started>> ELSE <<>>]]
  /\ UNCHANGED <<apiKey, fin, fout>>

\* the awaited fetch settles and makeRequest returns the data or throws
MakeRequestSettles(c, outcome) ==
  /\ calls[c].pc = "awaiting"
  /\ calls' = [calls EXCEPT ![c] =
       [@ EXCEPT !.pc = "done", !.outcome = <<outcome>>,
                 !.result = <<makeRequestFinish(outcome)>>]]
  /\ UNCHANGED <<apiKey, net, fin, fout>>

ExecutorCall(c) ==
  \E endpoint \in ExecutorEndpoints, options \in ExecutorOptions :
    MakeRequest(c, endpoint, options)

ExecutorSettle(c) == \E outcome \in FetchOutcomes : MakeRequestSettles(c, outcome)

ExecutorNext ==
  \E c \in CallIds : ExecutorCall(c) \/ ExecutorSettle(c) \/ Return(c)

SpecExecutor == Init /\ [][ExecutorNext]_vars

(***************************************************************************)
(* Tool calls in flight together: a call may arrive while others wait for  *)
(* their fetch, and the fetches settle in any order                        *)
(***************************************************************************)
ConcurrentNames == {"get_projects", "delete_project", "get_everything"}

ConcurrentArguments == {<<>>, <<[id |-> 42]>>}

\* a rejection, a success with a JSON body, an error status with a text body
ConcurrentOutcomes ==
  {o \in FetchOutcomes :
     \/ o.rejected
     \/ ~o.readFails /\ o.status = 200 /\ o.body = JsonBody
     \/ ~o.readFails /\ o.status = 404 /\ o.body = <<"Not Found">>}

ConcurrentDispatch(c) ==
  \E name \in ConcurrentNames, args \in ConcurrentArguments : CallTool(c, name, args)

ConcurrentSettle(c) == \E outcome \in ConcurrentOutcomes : FetchSettles(c, outcome)

ConcurrentNext ==
  \E c \in CallIds : ConcurrentDispatch(c) \/ ConcurrentSettle(c) \/ Return(c)

SpecConcurrent == Init /\ [][ConcurrentNext]_vars

(***************************************************************************)
(* The ListToolsRequestSchema handler                                      *)
(***************************************************************************)
\* ToolCatalog as it was when the server had three tools
ToolCatalogOfThree == <<"get_projects", "get_users", "get_time_entries">>

\* the name of every entry of the tools array, in the order of the array
ToolCatalog ==
  <<"get_projects", "get_project_by_id", "create_project",
    "update_project", "delete_project", "get_project_insights",
    "get_users", "get_user_by_id", "create_user", "update_user",
    "get_time_entries", "get_time_entry_by_id", "get_contacts",
    "get_contact_by_id", "create_contact", "update_contact",
    "delete_contact", "get_customers", "get_customer_by_id",
    "create_customer", "update_customer", "delete_customer",
    "get_tasks", "get_task_by_id", "get_invoices", "get_invoice_by_id",
    "get_expenses", "get_expense_by_id", "create_expense",
    "update_expense", "delete_expense", "update_expense_status",
    "update_expense_client_status", "get_expense_status_history",
    "get_mileage", "get_mileage_by_id", "create_mileage",
    "update_mileage", "delete_mileage", "update_mileage_status",
    "update_mileage_client_status", "get_mileage_status_history",
    "get_mileage_vehicles", "get_mileage_vehicle_by_id", "get_tags",
    "get_tag_by_id">>

\* tools/list: the handler returns { tools: [...] }; it reads no field and
\* calls nothing
ListTools ==
  /\ fout' = <<[tools |-> ToolCatalog]>>
  /\ UNCHANGED <<apiKey, calls, net, fin>>

\* a tool is called by any name, without arguments
CatalogCall(c) ==
  /\ \A d \in CallIds : calls[d].pc = "idle"
  /\ \E name \in Names : CallTool(c, name, <<>>)

CatalogSettle(c) == \E outcome \in ConcurrentOutcomes : FetchSettles(c, outcome)

CatalogNext ==
  \/ ListTools
  \/ \E c \in CallIds : CatalogCall(c) \/ CatalogSettle(c) \/ Return(c)

SpecCatalog == Init /\ [][CatalogNext]_vars

(***************************************************************************)
(* The endpoint list of the README, a row per tool: the verb and the path, *)
(* with {id} where the id of the resource goes                             *)
(***************************************************************************)
ReadmeEndpoint(name) ==
  CASE name = "get_projects" -> [method |-> "GET", path |-> <<"/projects">>]
    [] name = "get_project_by_id" -> [method |-> "GET", path |-> <<"/projects", "/", "{id}">>]
    [] name = "create_project" -> [method |-> "POST", path |-> <<"/projects">>]
    [] name = "update_project" -> [method |-> "PUT", path |-> <<"/projects", "/", "{id}">>]
    [] name = "delete_project" -> [method |-> "DELETE", path |-> <<"/projects", "/", "{id}">>]
    [] name = "get_project_insights" -> [method |-> "GET", path |-> <<"/projects", "/", "{id}", "/insights">>]
    [] name = "get_users" -> [method |-> "GET", path |-> <<"/users">>]
    [] name = "get_user_by_id" -> [method |-> "GET", path |-> <<"/users", "/", "{id}">>]
    [] name = "create_user" -> [method |-> "POST", path |-> <<"/users">>]
    [] name = "update_user" -> [method |-> "PUT", path |-> <<"/users", "/", "{id}">>]
    [] name = "get_time_entries" -> [method |-> "GET", path |-> <<"/times">>]
    [] name = "get_time_entry_by_id" -> [method |-> "GET", path |-> <<"/times", "/", "{id}">>]
    [] name = "get_contacts" -> [method |-> "GET", path |-> <<"/contacts">>]
    [] name = "get_contact_by_id" -> [method |-> "GET", path |-> <<"/contacts", "/", "{id}">>]
    [] name = "create_contact" -> [method |-> "POST", path |-> <<"/contacts">>]
    [] name = "update_contact" -> [method |-> "PUT", path |-> <<"/contacts", "/", "{id}">>]
    [] name = "delete_contact" -> [method |-> "DELETE", path |-> <<"/contacts", "/", "{id}">>]
    [] name = "get_customers" -> [method |-> "GET", path |-> <<"/customers">>]
    [] name = "get_customer_by_id" -> [method |-> "GET", path |-> <<"/customers", "/", "{id}">>]
    [] name = "create_customer" -> [method |-> "POST", path |-> <<"/customers">>]
    [] name = "update_customer" -> [method |-> "PUT", path |-> <<"/customers", "/", "{id}">>]
    [] name = "delete_customer" -> [method |-> "DELETE", path |-> <<"/customers", "/", "{id}">>]
    [] name = "get_tasks" -> [method |-> "GET", path |-> <<"/tasks">>]
    [] name = "get_task_by_id" -> [method |-> "GET", path |-> <<"/tasks", "/", "{id}">>]
    [] name = "get_invoices" -> [method |-> "GET", path |-> <<"/invoices">>]
    [] name = "get_invoice_by_id" -> [method |-> "GET", path |-> <<"/invoices", "/", "{id}">>]
    [] name = "get_expenses" -> [method |-> "GET", path |-> <<"/expenses">>]
    [] name = "get_expense_by_id" -> [method |-> "GET", path |-> <<"/expenses", "/", "{id}">>]
    [] name = "create_expense" -> [method |-> "POST", path |-> <<"/expenses">>]
    [] name = "update_expense" -> [method |-> "PUT", path |-> <<"/expenses", "/", "{id}">>]
    [] name = "delete_expense" -> [method |-> "DELETE", path |-> <<"/expenses", "/", "{id}">>]
    [] name = "update_expense_status" -> [method |-> "PUT", path |-> <<"/expenses", "/status">>]
    [] name = "update_expense_client_status" -> [method |-> "PUT", path |-> <<"/expenses", "/clientStatus">>]
    [] name = "get_expense_status_history" -> [method |-> "GET", path |-> <<"/expenses", "/", "{id}", "/statusHistory">>]
    [] name = "get_mileage" -> [method |-> "GET", path |-> <<"/mileage">>]
    [] name = "get_mileage_by_id" -> [method |-> "GET", path |-> <<"/mileage", "/", "{id}">>]
    [] name = "create_mileage" -> [method |-> "POST", path |-> <<"/mileage">>]
    [] name = "update_mileage" -> [method |-> "PUT", path |-> <<"/mileage", "/", "{id}">>]
    [] name = "delete_mileage" -> [method |-> "DELETE", path |-> <<"/mileage", "/", "{id}">>]
    [] name = "update_mileage_status" -> [method |-> "PUT", path |-> <<"/mileage", "/status">>]
    [] name = "update_mileage_client_status" -> [method |-> "PUT", path |-> <<"/mileage", "/clientStatus">>]
    [] name = "get_mileage_status_history" -> [method |-> "GET", path |-> <<"/mileage", "/", "{id}", "/statusHistory">>]
    [] name = "get_mileage_vehicles" -> [method |-> "GET", path |-> <<"/mileageVehicles">>]
    [] name = "get_mileage_vehicle_by_id" -> [method |-> "GET", path |-> <<"/mileageVehicles", "/", "{id}">>]
    [] name = "get_tags" -> [method |-> "GET", path |-> <<"/tags">>]
    [] name = "get_tag_by_id" -> [method |-> "GET", path |-> <<"/tags", "/", "{id}">>]

(***************************************************************************)
(* The operations that send a body, called with bags of body fields        *)
(***************************************************************************)
CreateTools ==
  {"create_project", "create_user", "create_contact", "create_customer",
   "create_mileage", "create_expense"}

UpdateTools ==
  {"update_project", "update_user", "update_contact", "update_customer",
   "update_mileage", "update_expense"}

StatusTools ==
  {"update_expense_status", "update_expense_client_status",
   "update_mileage_status", "update_mileage_client_status"}

\* bags of fields of a resource: absent, falsy ("", false, 0) or set; id is
\* the argument the update tools need and the create tools do not declare
FieldBags ==
  {BagOf(choice) : choice \in
     [id : Option({42}),
      name : Option({<<>>, <<"Acme">>}),
      email : Option({<<>>, <<"a@b.example">>}),
      active : Option({FALSE, TRUE}),
      distance : Option({0, 12})]}

\* bags of the status tools: a list of identifiers within the schema's
\* maxItems or one longer than it
StatusBags ==
  {BagOf(choice) : choice \in
     [message : Option({<<"checked">>}),
      mileages : Option({[i \in 1..2 |-> i], [i \in 1..(maxItems + 1) |-> i]}),
      expenses : Option({[i \in 1..(maxItems + 1) |-> i]}),
      status : Option({<<"Approved">>}),
      clientStatus : Option({<<"Pending">>})]}

BodyBags == FieldBags \cup StatusBags

BodyInit ==
  /\ apiKey = <<<<"test-key-123">>>>
  /\ calls = [c \in CallIds |-> Idle]
  /\ net = <<>>
  /\ fin \in BodyBags
  /\ fout = <<>>

\* a create, update or status tool is called with the bag fin
BodyCall(c) ==
  /\ \A d \in CallIds : calls[d].pc = "idle"
  /\ \E name \in CreateTools \cup UpdateTools \cup StatusTools :
       CallTool(c, name, <<fin>>)

BodyNext == \E c \in CallIds : BodyCall(c)

SpecBody == BodyInit /\ [][BodyNext]_vars

(***************************************************************************)
(* Vocabulary of the properties                                            *)
(***************************************************************************)
\* the requests call c has handed to fetch
RequestsOf(c) == {i \in 1..Len(net) : net[i].call = c}

\* sub occurs in text as a contiguous run of atoms
Contains(text, sub) ==
  \E i \in 0..(Len(text) - Len(sub)) : SubSeq(text, i + 1, i + Len(sub)) = sub

\* the number of occurrences of the atom a in text
Occurrences(text, a) == Cardinality({i \in 1..Len(text) : text[i] = a})

Started(c) == calls[c].pc # "idle"

Done(c) == calls[c].pc = "done"

KnownTool(c) == calls[c].name \in ToolNames

\* the bag the operation works on
BagOfCall(c) == IF calls[c].args = <<>> THEN EmptyBag ELSE calls[c].args[1]

\* a credential is configured
KeyConfigured == apiKey # <<>> /\ apiKey[1] # <<>>

\* the call has ended by returning a result envelope
ReturnedEnvelope(c) == Done(c) /\ ~calls[c].result[1].threw

\* the call has ended by throwing
Raised(c) == Done(c) /\ calls[c].result[1].threw

EnvelopeOf(c) == calls[c].result[1].value[1]

IsFailure(c) == ReturnedEnvelope(c) /\ EnvelopeOf(c).isError

IsSuccess(c) == ReturnedEnvelope(c) /\ ~EnvelopeOf(c).isError

\* the four kinds of error, told apart by what the message carries
IsConfigurationError(text) ==
  Contains(text, <<"TIMECHIMP_API_KEY environment variable is required">>)

IsUpstreamError(text) == Contains(text, <<"TimeChimp API error: ">>)

IsTransportError(text) == Contains(text, <<"Request failed: ">>)

IsProtocolError(error) == error.mcp /\ error.code = "MethodNotFound"

\* the fetch of call c has settled with a response (of any status)
GotResponse(c) == calls[c].outcome # <<>> /\ ~calls[c].outcome[1].rejected

ResponseOf(c) == calls[c].outcome[1]

SuccessStatus(c) ==
  GotResponse(c) /\ ResponseOf(c).status >= 200 /\ ResponseOf(c).status < 300

GetByIdTools ==
  {"get_project_by_id", "get_user_by_id", "get_time_entry_by_id", "get_contact_by_id",
   "get_customer_by_id", "get_task_by_id", "get_invoice_by_id", "get_expense_by_id",
   "get_mileage_by_id", "get_mileage_vehicle_by_id", "get_tag_by_id"}

DeleteTools ==
  {"delete_project", "delete_contact", "delete_customer", "delete_expense",
   "delete_mileage"}

\* the resource word of a delete confirmation
DeletedResource(name) ==
  CASE name = "delete_project" -> "Project"
    [] name = "delete_contact" -> "Contact"
    [] name = "delete_customer" -> "Customer"
    [] name = "delete_expense" -> "Expense"
    [] OTHER -> "Mileage"

C2_MissingIdIsRejected ==
  \A c \in CallIds :
    Started(c) /\ calls[c].name \in GetByIdTools /\ "id" \notin DOMAIN BagOfCall(c) =>
      /\ IsFailure(c)
      /\ RequestsOf(c) = {}
      /\ \A i \in 1..Len(net) : ~Contains(net[i].request.url, <<"undefined">>)

(***************************************************************************)
(* C3                                                                      *)
(***************************************************************************)
\* the remote call of c has failed: no credential, no response at all, or a
\* response with a non-success status
RemoteCallFailed(c) ==
  \/ ~KeyConfigured
  \/ /\ calls[c].outcome # <<>>
     /\ ~SuccessStatus(c)

C4_NoCredentialNoRequest ==
  \A c \in CallIds :
    Started(c) /\ KnownTool(c) /\ ~KeyConfigured =>
      /\ IsFailure(c)
      /\ IsConfigurationError(EnvelopeOf(c).text)
      /\ calls[c].outcome = <<>>
      /\ RequestsOf(c) = {}
      /\ net = <<>>

C4_Witness ==
  \E c \in CallIds :
    /\ Done(c) /\ KnownTool(c) /\ apiKey = <<<<>>>>
    /\ calls[c].name = "create_project"
    /\ IsFailure(c)

(***************************************************************************)
(* C5                                                                      *)
(***************************************************************************)
\* C5: whenever the remote service answers with a non-success status, the
\* call ends with a failure envelope that is an upstream error carrying the
\* status, the status text and the body text; it is neither a success nor a
\* transport error.
C5_NonSuccessIsUpstreamError ==
  \A c \in CallIds :
    Done(c) /\ GotResponse(c) /\ ~SuccessStatus(c) =>
      /\ IsFailure(c)
      /\ Contains(EnvelopeOf(c).text,
                  <<"TimeChimp API error: ", NumStr(ResponseOf(c).status), " ">>
                  \o ResponseOf(c).statusText \o <<" - ">> \o ResponseOf(c).body)
      /\ ~IsTransportError(EnvelopeOf(c).text)

(***************************************************************************)
(* C6                                                                      *)
(***************************************************************************)
\* C6: a delete call with id X that the remote service answers with a
\* success status, the answer having been received whole and its body being
\* empty or not, ends with the success envelope "<Resource> X deleted
\* successfully".
C6_DeleteConfirms ==
  \A c \in CallIds :
    /\ Done(c) /\ calls[c].name \in DeleteTools /\ "id" \in DOMAIN BagOfCall(c)
    /\ SuccessStatus(c) /\ ~ResponseOf(c).readFails
    => /\ IsSuccess(c)
       /\ EnvelopeOf(c).text =
            <<DeletedResource(calls[c].name), " ", NumStr(BagOfCall(c)["id"]),
              " deleted successfully">>

(***************************************************************************)
(* C7                                                                      *)
(***************************************************************************)
\* C7: a call hands at most one request to fetch; exactly one when the
\* operation is known and a credential is configured (so in particular when
\* the required arguments are present too); and when the fetch has settled,
\* with an error or not, that one request is still the only one.
C7_FireOnce ==
  \A c \in CallIds :
    /\ Cardinality(RequestsOf(c)) <= 1
    /\ Started(c) /\ KnownTool(c) /\ KeyConfigured => Cardinality(RequestsOf(c)) = 1
    /\ Started(c) /\ ~(KnownTool(c) /\ KeyConfigured) => RequestsOf(c) = {}
    /\ calls[c].outcome # <<>> => Done(c) /\ Cardinality(RequestsOf(c)) = 1
    /\ ~Started(c) => RequestsOf(c) = {}

C7_Witness ==
  \E c \in CallIds :
    /\ Done(c) /\ KnownTool(c)
    /\ GotResponse(c) /\ ResponseOf(c).status = 404
    /\ IsFailure(c)
    /\ Cardinality(RequestsOf(c)) = 1

(***************************************************************************)
(* C8, C9, C10: the filter composer                                        *)
(***************************************************************************)
\* a source is non-empty: the flag is set, or the string is not ""
NonEmptySource(bag, f) ==
  /\ f \in DOMAIN bag
  /\ IF f = "active_only" THEN bag[f] = TRUE ELSE bag[f] # <<>>

\* no filter source is present in the bag
NoFilterSource(bag) == \A i \in 1..Len(FilterSources) : FilterSources[i] \notin DOMAIN bag

\* the fragment a non-empty source is rendered to
Fragment(bag, f) ==
  CASE f = "active_only" -> <<"active eq true">>
    [] f = "user_id" -> <<"user/id eq ">> \o bag[f]
    [] f = "project_id" -> <<"project/id eq ">> \o bag[f]
    [] f = "customer_id" -> <<"customer/id eq ">> \o bag[f]
    [] f = "from_date" -> <<"date ge ">> \o bag[f]
    [] f = "to_date" -> <<"date le ">> \o bag[f]
    [] OTHER -> bag[f]

\* the fragments of the non-empty sources among sources, in that order
RECURSIVE Fragments(_, _)
Fragments(bag, sources) ==
  IF sources = <<>> THEN <<>>
  ELSE (IF NonEmptySource(bag, Head(sources))
        THEN <<Fragment(bag, Head(sources))>> ELSE <<>>)
       \o Fragments(bag, Tail(sources))

\* the fragments with " and " between each two neighbours
RECURSIVE JoinAnd(_)
JoinAnd(fragments) ==
  IF fragments = <<>> THEN <<>>
  ELSE IF Len(fragments) = 1 THEN fragments[1]
  ELSE fragments[1] \o <<" and ">> \o JoinAnd(Tail(fragments))

RECURSIVE SumOccurrences(_, _)
SumOccurrences(fragments, a) ==
  IF fragments = <<>> THEN 0
  ELSE Occurrences(Head(fragments), a) + SumOccurrences(Tail(fragments), a)

\* the first atom of each fragment of the bag: where the fragment starts
LeadAtoms(bag) ==
  LET fragments == Fragments(bag, FilterSources)
  IN [i \in 1..Len(fragments) |-> fragments[i][1]]

IsLead(a) == \E i \in 1..Len(LeadAtoms(fin)) : LeadAtoms(fin)[i] = a

\* the list request call c has handed to fetch
ListRequest(c) == net[CHOOSE i \in RequestsOf(c) : TRUE].request

\* C8: for a bag in which none of the seven filter sources is present (other
\* properties may be), the composer returns the empty string, and the
\* request of a list operation called with that bag has no $filter parameter.
C8_NoSourceNoFilter ==
  NoFilterSource(fin) =>
    /\ fout # <<>> => fout[1] = <<>>
    /\ \A c \in CallIds :
         Started(c) =>
           /\ RequestsOf(c) # {}
           /\ ~HasKey(ListRequest(c).query, "$filter")

C8_Witness ==
  /\ NoFilterSource(fin)
  /\ DOMAIN fin = {"orderby", "top"}
  /\ fout = <<<<>>>>
  /\ \E c \in CallIds :
       /\ calls[c].name = "get_time_entries"
       /\ Len(ListRequest(c).query) = 2

\* C9 as stated: with N >= 1 non-empty sources the composed filter has
\* exactly N-1 occurrences of " and ".
C9_ExactlyNMinusOneAnd ==
  fout # <<>> =>
    LET n == Len(Fragments(fin, FilterSources))
    IN n >= 1 => Occurrences(fout[1], " and ") = n - 1

\* C9 (amended): with N >= 1 non-empty sources the composed filter is made of
\* the N fragments in the fixed source order with exactly N-1 separators
\* " and " between them; its occurrences of " and " are those N-1 plus the
\* ones that stand inside the fragments themselves (a raw filter such as
\* "type eq 'Business' and billable eq true" brings its own), so they number
\* exactly N-1 when no value contains " and ".
C9_SeparatorsBetweenFragments ==
  fout # <<>> =>
    LET fragments == Fragments(fin, FilterSources)
        n == Len(fragments)
    IN n >= 1 =>
         /\ Occurrences(fout[1], " and ")
              = (n - 1) + SumOccurrences(fragments, " and ")
         /\ SumOccurrences(fragments, " and ") = 0
              => Occurrences(fout[1], " and ") = n - 1
         /\ SelectSeq(fout[1], IsLead) = LeadAtoms(fin)
         /\ fout[1][1] # " and " /\ fout[1][Len(fout[1])] # " and "

C9_Witness ==
  /\ fout # <<>>
  /\ Len(Fragments(fin, FilterSources)) = 7
  /\ fin["filter"] = CompoundFilter
  /\ Occurrences(fout[1], " and ") = 7

\* C10: the composed filter is the " and "-join, in the order active, user,
\* project, customer, from-date, to-date, raw filter, of the fragments of
\* exactly the sources that are present and non-empty (a flag that is false
\* and a string that is "" count as empty); nothing else is in it.
C10_FilterIsJoinOfFragments ==
  fout # <<>> => fout[1] = JoinAnd(Fragments(fin, FilterSources))

\* get_time_entries {user_id: "7", from_date: "2024-01-01", to_date: "2024-01-31"}
C10_Witness ==
  /\ DOMAIN fin = {"user_id", "from_date", "to_date"}
  /\ fin["user_id"] = <<"7">>
  /\ fout = <<<<"user/id eq ", "7", " and ", "date ge ", "2024-01-01", " and ",
               "date le ", "2024-01-31">>>>

(***************************************************************************)
(* C11, C12: the query builder                                             *)
(***************************************************************************)
\* the entries of params under a key, by position
EntriesOf(params, key) == {i \in 1..Len(params) : params[i][1] = key}

\* the values params holds under a key
ValuesOf(params, key) == {params[i][2] : i \in EntriesOf(params, key)}

\* the decimal numeral of a number a caller passes, as the caller wrote it
Decimal(n) ==
  CASE n = 5 -> <<"5">>
    [] n = 20000 -> <<"20000">>
    [] n = 42 -> <<"42">>
    [] OTHER -> <<"0">>

\* the property is in the bag with a value other than zero
NonZero(bag, f) == f \in DOMAIN bag /\ bag[f] # 0

QueryKey(f) == IF f = "top" THEN "$top" ELSE "$skip"

\* C11: the query builder emits $top and $skip if and only if the property
\* is present and truthy (0 is omitted), once, and with the caller's number
\* unchanged: 5 as 5, and an out-of-range 20000 as 20000, neither clamped
\* nor rejected.
C11_TopSkipPassThrough ==
  fout # <<>> =>
    \A f \in {"top", "skip"} :
      IF NonZero(fin, f)
      THEN /\ Cardinality(EntriesOf(fout[1], QueryKey(f))) = 1
           /\ ValuesOf(fout[1], QueryKey(f)) = {Decimal(fin[f])}
      ELSE EntriesOf(fout[1], QueryKey(f)) = {}

\* the builder has run on { top: 20000, skip: 0 }: $top=20000 and no $skip
C11_Witness ==
  /\ fout # <<>>
  /\ "top" \in DOMAIN fin /\ fin["top"] = 20000
  /\ "skip" \in DOMAIN fin /\ fin["skip"] = 0
  /\ ValuesOf(fout[1], "$top") = {<<"20000">>}
  /\ EntriesOf(fout[1], "$skip") = {}

C13_Bag == [active_only |-> TRUE, orderby |-> <<"name desc">>]

\* call c is get_projects with that bag
C13_Scenario(c) ==
  /\ Started(c)
  /\ calls[c].name = "get_projects"
  /\ BagOfCall(c) = C13_Bag

\* C13 as stated: the call executes GET /projects with the query
\* $filter=active eq true followed by $orderby=name desc, these two
\* parameters in this order.
C13_FilterThenOrderby ==
  \A c \in CallIds :
    C13_Scenario(c) =>
      /\ Cardinality(RequestsOf(c)) = 1
      /\ ListRequest(c).method = "GET"
      /\ ListRequest(c).url = baseUrl \o <<"/projects">>
      /\ ListRequest(c).query =
           <<<<"$filter", <<"active eq true">>>>, <<"$orderby", <<"name desc">>>>>>

\* C13 as amended: the call executes GET /projects with exactly the two
\* parameters $orderby=name desc (the caller's, no default added) and
\* $filter=active eq true, the $orderby first and the $filter after it.
C13_OrderbyThenFilter ==
  \A c \in CallIds :
    C13_Scenario(c) =>
      /\ Cardinality(RequestsOf(c)) = 1
      /\ ListRequest(c).method = "GET"
      /\ ListRequest(c).url = baseUrl \o <<"/projects">>
      /\ ListRequest(c).query =
           <<<<"$orderby", <<"name desc">>>>, <<"$filter", <<"active eq true">>>>>>

\* the scenario has run and its request is with fetch
C13_Witness ==
  \E c \in CallIds :
    /\ C13_Scenario(c)
    /\ calls[c].pc = "awaiting"
    /\ Len(ListRequest(c).query) = 2

(***************************************************************************)
(* C20: the default sort order of a list operation                         *)
(***************************************************************************)
\* the caller supplied an orderby (a non-empty one)
GaveOrderby(bag) == "orderby" \in DOMAIN bag /\ bag["orderby"] # <<>>

\* C20 as stated: the request of a list operation carries exactly one
\* $orderby: the caller's when the caller supplied one, and otherwise the
\* default sort order of the resource (whatever its text), so that
\* get_projects without an orderby is sorted.
C20_DefaultOrderWhenNoneGiven ==
  \A c \in CallIds :
    Started(c) /\ calls[c].name \in ListOperations /\ RequestsOf(c) # {} =>
      /\ Cardinality(EntriesOf(ListRequest(c).query, "$orderby")) = 1
      /\ GaveOrderby(BagOfCall(c)) =>
           ValuesOf(ListRequest(c).query, "$orderby") = {BagOfCall(c)["orderby"]}

(***************************************************************************)
(* C14: the headers of a request                                           *)
(***************************************************************************)
\* the headers the caller of makeRequest passed in options
GivenHeaders(c) == calls[c].op[1].options.headers

NoResponse(c) == calls[c].outcome # <<>> /\ calls[c].outcome[1].rejected

\* C15 as stated: when the fetch of a call rejects, the call returns a
\* failure envelope that is a TransportError carrying the message of the
\* rejection; and an envelope is a TransportError only then, never when a
\* response was received.
C15_TransportErrorIffNoResponse ==
  \A c \in CallIds :
    ReturnedEnvelope(c) =>
      /\ NoResponse(c) =>
           /\ IsFailure(c)
           /\ IsTransportError(EnvelopeOf(c).text)
           /\ Contains(EnvelopeOf(c).text, calls[c].outcome[1].message)
      /\ IsTransportError(EnvelopeOf(c).text) => NoResponse(c)

(***************************************************************************)
(* C16: calls in flight together                                           *)
(***************************************************************************)
\* the requests of call c, in the order they were handed to fetch
RequestSeqOf(c) == SelectSeq(net, LAMBDA e : e.call = c)

\* what call c hands to fetch, from its name, its bag and the configuration
OwnRequests(c) ==
  LET routed == switch(calls[c].name, calls[c].args)
  IN IF routed.threw THEN <<>>
     ELSE Fetches(c, makeRequestStart(apiKey, routed.value[1].endpoint,
                                      routed.value[1].options))

\* what call c ends with, from its name, its bag, the configuration and the
\* settlement of its own fetch
OwnResult(c) ==
  LET routed == switch(calls[c].name, calls[c].args)
  IN IF routed.threw THEN CallToolCatch(routed.error[1])
     ELSE IF OwnRequests(c) = <<>>
     THEN Returned(Envelope(routed.value[1],
                            makeRequestStart(apiKey, routed.value[1].endpoint,
                                             routed.value[1].options)))
     ELSE Returned(Envelope(routed.value[1], makeRequestFinish(calls[c].outcome[1])))

\* C16: with any number of calls in flight and any interleaving of their
\* steps, the request of each call and the result it ends with are the ones
\* its own name, bag, the configuration and its own response determine; a
\* call that waits has no result, whatever the other calls have done.
C16_OwnInputsOnly ==
  \A c \in CallIds :
    Started(c) =>
      /\ RequestSeqOf(c) = OwnRequests(c)
      /\ calls[c].pc = "awaiting" => calls[c].result = <<>> /\ calls[c].outcome = <<>>
      /\ Done(c) => calls[c].result = <<OwnResult(c)>>

\* two calls were in flight together, and the one called second has its
\* result while the one called first still waits: completion order
C16_Witness ==
  \E c, d \in CallIds :
    /\ c # d
    /\ calls[c].pc = "awaiting" /\ calls[c].name = "get_projects"
    /\ Done(d) /\ calls[d].name = "delete_project" /\ GotResponse(d)
    /\ \E i \in RequestsOf(c), j \in RequestsOf(d) : i < j
    /\ calls[d].result = <<OwnResult(d)>>

(***************************************************************************)
(* C17: the listed catalog                                                 *)
(***************************************************************************)
\* the names the answer to tools/list holds
ListedNames == {fout[1].tools[i] : i \in 1..Len(fout[1].tools)}

\* the call ended with the error of a name the switch has no arm for
RefusedAsUnknown(c) == Raised(c) /\ IsProtocolError(calls[c].result[1].error[1])

\* C17: tools/list answers whatever the credential is and hands nothing to
\* fetch (every request in flight is the one request of a tool call); its
\* answer names 46 distinct operations, get_projects, get_users and
\* get_time_entries among them, and a tool call is refused as unknown
\* exactly when its name is not one of the listed names.
C17_ListedIffDispatchable ==
  fout # <<>> =>
    /\ Len(fout[1].tools) = 46
    /\ Cardinality(ListedNames) = 46
    /\ {"get_projects", "get_users", "get_time_entries"} \subseteq ListedNames
    /\ \A i \in 1..Len(net) :
         Started(net[i].call) /\ RequestsOf(net[i].call) = {i}
    /\ \A c \in CallIds :
         Done(c) => (calls[c].name \in ListedNames <=> ~RefusedAsUnknown(c))

\* no credential is configured, the tools have been listed, a listed tool
\* was dispatched (and failed for want of the credential) with nothing sent
C17_Witness ==
  /\ apiKey = <<>>
  /\ fout # <<>>
  /\ net = <<>>
  /\ \E c \in CallIds :
       /\ calls[c].name = "get_time_entries"
       /\ IsFailure(c)
       /\ IsConfigurationError(EnvelopeOf(c).text)

(***************************************************************************)
(* C18: the verb and the path of every operation                           *)
(***************************************************************************)
\* the documented path has a place for an id
PathHasId(name) ==
  \E i \in 1..Len(ReadmeEndpoint(name).path) : ReadmeEndpoint(name).path[i] = "{id}"

\* the documented path with the id put in its place
DocumentedPath(name, id) ==
  [i \in 1..Len(ReadmeEndpoint(name).path) |->
     IF ReadmeEndpoint(name).path[i] = "{id}" THEN id
     ELSE ReadmeEndpoint(name).path[i]]

\* the id call c was given, as the caller wrote it
IdOfCall(c) ==
  IF "id" \in DOMAIN BagOfCall(c) THEN Decimal(BagOfCall(c)["id"])[1] ELSE "{id}"

AttemptedPath(c) == calls[c].op[1].endpoint.path

\* the remote call of c failed: no response, or a status that is no success
RemoteFailure(c) == NoResponse(c) \/ (GotResponse(c) /\ ~SuccessStatus(c))

\* C19 as stated: for an operation of any kind, a remote call that failed
\* ends in a failure envelope, and the message of every failure envelope
\* names the path that was attempted and, when the remote service answered
\* with an error status, that status.
C19_FailureNamesEndpointAndCause ==
  \A c \in CallIds :
    ReturnedEnvelope(c) /\ KnownTool(c) =>
      /\ RemoteFailure(c) => IsFailure(c)
      /\ IsFailure(c) =>
           /\ Contains(EnvelopeOf(c).text, AttemptedPath(c))
           /\ GotResponse(c) /\ ~SuccessStatus(c) =>
                Contains(EnvelopeOf(c).text, <<NumStr(ResponseOf(c).status)>>)

(***************************************************************************)
(* C21: success envelopes                                                  *)
(***************************************************************************)
\* the remote service answered call c with a success status and a body that
\* was received whole and is JSON
ParsedSuccess(c) ==
  SuccessStatus(c) /\ ~ResponseOf(c).readFails /\ ResponseOf(c).body = JsonBody

\* the data of the JSON body the model has, as text
RemoteData == <<"{\n  \"id\": 42\n}">>

\* C21 as stated: a call answered with a success status and a parseable body
\* returns a success envelope whose payload is the remote data; a success
\* envelope is returned only then; an envelope is a success or a failure.
C21_SuccessCarriesRemoteData ==
  \A c \in CallIds :
    ReturnedEnvelope(c) =>
      /\ ParsedSuccess(c) => IsSuccess(c) /\ EnvelopeOf(c).text = RemoteData
      /\ IsSuccess(c) => ParsedSuccess(c)
      /\ IsSuccess(c) # IsFailure(c)

\* C21 as amended: the same, except that for a delete operation the payload
\* of the success envelope is the confirmation "<Resource> <id> deleted
\* successfully" and not the remote data.
C21_SuccessCarriesDataOrConfirmation ==
  \A c \in CallIds :
    ReturnedEnvelope(c) =>
      /\ ParsedSuccess(c) =>
           /\ IsSuccess(c)
           /\ IF calls[c].name \in DeleteTools
              THEN EnvelopeOf(c).text =
                     <<DeletedResource(calls[c].name), " ">>
                     \o Tmpl("id", Arg(BagOfCall(c), "id"))
                     \o <<" deleted successfully">>
              ELSE EnvelopeOf(c).text = RemoteData
      /\ IsSuccess(c) => ParsedSuccess(c)
      /\ IsSuccess(c) # IsFailure(c)

\* delete_customer 42 has been answered 200 with a JSON body and the call
\* returned the confirmation as a success
C21_Witness ==
  \E c \in CallIds :
    /\ calls[c].name = "delete_customer"
    /\ "id" \in DOMAIN BagOfCall(c)
    /\ ParsedSuccess(c)
    /\ IsSuccess(c)
    /\ EnvelopeOf(c).text = <<"Customer", " ", "42", " deleted successfully">>

(***************************************************************************)
(* C22: the $filter of a list request                                      *)
(***************************************************************************)
\* the filter sources other than the raw filter, in the composer's order
FlagAndIdSources == SubSeq(FilterSources, 1, Len(FilterSources) - 1)

\* the caller gave a raw filter that is not the empty string
GaveFilter(bag) == NonEmptySource(bag, "filter")

\* the filter built from the bag: the fragments of the other sources, then
\* the raw filter as one more fragment when the caller gave one
FilterWithRawLast(bag) ==
  JoinAnd(Fragments(bag, FlagAndIdSources)
          \o (IF GaveFilter(bag) THEN <<bag["filter"]>> ELSE <<>>))

\* C22: when the composed filter of a list call is not empty, the query of
\* its request has exactly one $filter entry, whose value is the composed
\* filter; a raw filter argument makes no second $filter entry, and its text
\* is in the composed value as the one last fragment of it.
C22_OneFilterEntry ==
  \A c \in CallIds :
    Started(c) /\ calls[c].name \in ListOperations /\ RequestsOf(c) # {}
    /\ FilterWithRawLast(BagOfCall(c)) # <<>> =>
      /\ Cardinality(EntriesOf(ListRequest(c).query, "$filter")) = 1
      /\ ValuesOf(ListRequest(c).query, "$filter") = {FilterWithRawLast(BagOfCall(c))}
      /\ GaveFilter(BagOfCall(c)) =>
           Contains(FilterWithRawLast(BagOfCall(c)), BagOfCall(c)["filter"])

\* get_mileage {active_only: true, filter: "type eq 'Business' and billable
\* eq true"}: one $filter, holding both
C22_Witness ==
  \E c \in CallIds :
    /\ calls[c].name = "get_mileage"
    /\ DOMAIN BagOfCall(c) = {"active_only", "filter"}
    /\ BagOfCall(c)["active_only"]
    /\ Cardinality(EntriesOf(ListRequest(c).query, "$filter")) = 1
    /\ ValuesOf(ListRequest(c).query, "$filter") =
         {<<"active eq true", " and ">> \o CompoundFilter}

(***************************************************************************)
(* C23: the body of a create request                                       *)
(***************************************************************************)
\* the body fields a create tool declares, in the order it declares them
CreateFields(name) ==
  CASE name = "create_project" -> ProjectFields
    [] name = "create_user" ->
         <<"userName", "displayName", "language", "role", "sendInvitation", "contracts">>
    [] name = "create_contact" ->
         <<"name", "jobTitle", "email", "phone", "useForInvoicing", "active", "customers">>
    [] name = "create_customer" -> CustomerFields
    [] name = "create_mileage" -> MileageFields
    [] OTHER -> ExpenseFields

\* the base path of the resource of a create, update or delete tool
BasePath(name) ==
  CASE name \in {"create_project", "update_project", "delete_project"} -> <<"/projects">>
    [] name \in {"create_user", "update_user"} -> <<"/users">>
    [] name \in {"create_contact", "update_contact", "delete_contact"} -> <<"/contacts">>
    [] name \in {"create_customer", "update_customer", "delete_customer"} -> <<"/customers">>
    [] name \in {"create_mileage", "update_mileage", "delete_mileage"} -> <<"/mileage">>
    [] OTHER -> <<"/expenses">>

\* the fields of the list the bag has a value for, each with that value, in
\* the order of the list
RECURSIVE Selected(_, _)
Selected(bag, fields) ==
  IF fields = <<>> THEN <<>>
  ELSE (IF Head(fields) \in DOMAIN bag
        THEN <<<<Head(fields), bag[Head(fields)]>>>> ELSE <<>>)
       \o Selected(bag, Tail(fields))

\* the body of the request of call c
BodyOfCall(c) == ListRequest(c).body

\* C23: the request of a create call is a POST to the base path of the
\* resource, and its body holds, in declaration order, exactly the declared
\* fields the bag has a value for, each with that value ("", 0 and false
\* included); a field the bag lacks is absent from the body, and an argument
\* that is not declared is not in it.
C23_CreateBodyIsDeclaredFields ==
  \A c \in CallIds :
    Started(c) /\ calls[c].name \in CreateTools /\ RequestsOf(c) # {} =>
      /\ ListRequest(c).method = "POST"
      /\ ListRequest(c).url = baseUrl \o BasePath(calls[c].name)
      /\ BodyOfCall(c) = <<Selected(BagOfCall(c), CreateFields(calls[c].name))>>

(***************************************************************************)
(* C24: the body of an update request against the body of a create         *)
(***************************************************************************)
\* the body fields an update tool declares, in the order it declares them
UpdateFields(name) ==
  CASE name = "update_project" -> ProjectFields
    [] name = "update_user" ->
         <<"displayName", "language", "employeeNumber", "badgeNumber",
           "citizenServiceNumber", "role", "tags", "contracts">>
    [] name = "update_contact" ->
         <<"name", "jobTitle", "email", "phone", "useForInvoicing", "active", "customers">>
    [] name = "update_customer" -> CustomerFields
    [] name = "update_mileage" -> MileageFields
    [] OTHER -> ExpenseFields

\* the create tool of the resource of an update tool
CreateOf(name) ==
  CASE name = "update_project" -> "create_project"
    [] name = "update_user" -> "create_user"
    [] name = "update_contact" -> "create_contact"
    [] name = "update_customer" -> "create_customer"
    [] name = "update_mileage" -> "create_mileage"
    [] OTHER -> "create_expense"

\* the fields both the update tool and its create tool declare
SharedFields(name) ==
  {UpdateFields(name)[i] : i \in 1..Len(UpdateFields(name))}
  \cap {CreateFields(CreateOf(name))[i] : i \in 1..Len(CreateFields(CreateOf(name)))}

\* the entries of a body whose field is one of fields, in the body's order
OnFields(body, fields) == SelectSeq(body, LAMBDA e : e[1] \in fields)

\* the body the create tool of the resource assembles from the same bag
CreateBodyFor(c) ==
  switch(CreateOf(calls[c].name), calls[c].args).value[1].options.body[1]

\* C24: the request of an update call with an id is a PUT to
\* {basePath}/{id}; on the fields its create tool declares too, its body is
\* the body the create tool assembles from the same values (a field that is
\* absent, "", 0 or false is in both bodies or in neither); id is not a
\* field of the body.
C24_UpdateBodyAsCreate ==
  \A c \in CallIds :
    Started(c) /\ calls[c].name \in UpdateTools /\ RequestsOf(c) # {}
    /\ "id" \in DOMAIN BagOfCall(c) =>
      /\ ListRequest(c).method = "PUT"
      /\ ListRequest(c).url =
           baseUrl \o BasePath(calls[c].name) \o <<"/">> \o Decimal(BagOfCall(c)["id"])
      /\ OnFields(BodyOfCall(c)[1], SharedFields(calls[c].name)) =
           OnFields(CreateBodyFor(c), SharedFields(calls[c].name))
      /\ OnFields(BodyOfCall(c)[1], {"id"}) = <<>>

(***************************************************************************)
(* C26: the bulk status operations                                         *)
(***************************************************************************)
\* the sub-path of a status tool
StatusPath(name) ==
  CASE name = "update_expense_status" -> <<"/expenses", "/status">>
    [] name = "update_expense_client_status" -> <<"/expenses", "/clientStatus">>
    [] name = "update_mileage_status" -> <<"/mileage", "/status">>
    [] OTHER -> <<"/mileage", "/clientStatus">>

\* the three arguments of a status tool: the message, the list of
\* identifiers and the status value
StatusFields(name) ==
  CASE name = "update_expense_status" -> {"message", "expenses", "status"}
    [] name = "update_expense_client_status" -> {"clientStatus", "message", "expenses"}
    [] name = "update_mileage_status" -> {"message", "mileages", "status"}
    [] OTHER -> {"clientStatus", "message", "mileages"}

\* the body as a bag: the value of each field it holds
AsBag(body) ==
  [f \in {body[i][1] : i \in 1..Len(body)} |->
     body[CHOOSE i \in 1..Len(body) : body[i][1] = f][2]]

\* the bag without the arguments outside fields
Restricted(bag, fields) == [f \in DOMAIN bag \cap fields |-> bag[f]]

\* C26: the request of a bulk status call is a PUT to the fixed sub-path
\* /<base>/status or /<base>/clientStatus, and its body is the bag as
\* supplied: the message, the list of identifiers and the status value the
\* caller gave, each once, the list as it is whatever its length.
C26_StatusBodyIsTheBag ==
  \A c \in CallIds :
    Started(c) /\ calls[c].name \in StatusTools /\ RequestsOf(c) # {} =>
      /\ ListRequest(c).method = "PUT"
      /\ ListRequest(c).url = baseUrl \o StatusPath(calls[c].name)
      /\ Len(BodyOfCall(c)[1]) = Cardinality(DOMAIN AsBag(BodyOfCall(c)[1]))
      /\ AsBag(BodyOfCall(c)[1]) =
           Restricted(BagOfCall(c), StatusFields(calls[c].name))

\* update_mileage_status has been called with a list one longer than the
\* schema's maxItems, and the whole list is in the body
C26_Witness ==
  \E c \in CallIds :
    /\ calls[c].name = "update_mileage_status"
    /\ DOMAIN BagOfCall(c) = {"message", "mileages", "status"}
    /\ Len(BagOfCall(c)["mileages"]) = maxItems + 1
    /\ Len(AsBag(BodyOfCall(c)[1])["mileages"]) = maxItems + 1
    /\ ListRequest(c).url = baseUrl \o <<"/mileage", "/status">>

(***************************************************************************)
(* C25: update, delete, history and insights without an id                 *)
(***************************************************************************)
HistoryTools == {"get_expense_status_history", "get_mileage_status_history"}

\* the tools of C25: their path has the id in it
IdRequiredTools ==
  UpdateTools \cup DeleteTools \cup HistoryTools \cup {"get_project_insights"}

\* C25: a call of an update, delete or history tool or of
\* get_project_insights whose bag has no id hands nothing to fetch and ends
\* with a failure envelope; no PUT or DELETE goes to a path that ends in an
\* undefined id.
C25_IdRequired ==
  /\ \A c \in CallIds :
       Started(c) /\ calls[c].name \in IdRequiredTools
       /\ "id" \notin DOMAIN BagOfCall(c) =>
         /\ RequestsOf(c) = {}
         /\ IsFailure(c)
  /\ \A i \in 1..Len(net) :
       net[i].request.method \in {"PUT", "DELETE"} =>
         net[i].request.url[Len(net[i].request.url)] # "undefined"

(***************************************************************************)
(* The get-by-id and history operations, called with bags that hold query  *)
(* arguments and filter sources besides the id                             *)
(***************************************************************************)
ByIdBags ==
  {BagOf(choice) : choice \in
     [id : Option({42}),
      expand : Option({<<>>, <<"customer">>}),
      top : Option({5}),
      skip : Option({5}),
      count : Option({FALSE}),
      filter : Option({<<"billable eq true">>}),
      orderby : Option({<<"name desc">>}),
      active_only : Option({TRUE}),
      user_id : Option({<<"7">>}),
      from_date : Option({<<"2024-01-01">>})]}

ByIdInit ==
  /\ apiKey = <<<<"test-key-123">>>>
  /\ calls = [c \in CallIds |-> Idle]
  /\ net = <<>>
  /\ fin \in ByIdBags
  /\ fout = <<>>

\* a get-by-id or history tool is called with the bag fin
ByIdCall(c) ==
  /\ \A d \in CallIds : calls[d].pc = "idle"
  /\ \E name \in GetByIdTools \cup HistoryTools : CallTool(c, name, <<fin>>)

ByIdNext == \E c \in CallIds : ByIdCall(c)

SpecById == ByIdInit /\ [][ByIdNext]_vars

(***************************************************************************)
(* C27: the query of a history request                                     *)
(***************************************************************************)
QueryArguments == {"top", "skip", "count", "expand", "filter", "orderby"}

QueryKeys == {"$top", "$skip", "$count", "$expand", "$filter", "$orderby"}

\* the query the tool of call c builds from the bag of c cut down to the
\* id and the six query arguments
QueryWithoutOtherArguments(c) ==
  switch(calls[c].name,
         <<Restricted(BagOfCall(c), QueryArguments \cup {"id"})>>).value[1].endpoint.query

\* C27: the request of a history call is a GET of
\* {basePath}/{id}/statusHistory; its query has no key besides $top, $skip,
\* $count, $expand, $filter and $orderby; $filter is there exactly when the
\* caller gave a raw filter, once, with that text verbatim; and the query is
\* the one the same call makes without its other arguments (active_only,
\* user_id, from_date and the like change nothing).
C27_HistoryQueryFromSixArguments ==
  \A c \in CallIds :
    Started(c) /\ calls[c].name \in HistoryTools /\ RequestsOf(c) # {} =>
      /\ ListRequest(c).method = "GET"
      /\ "id" \in DOMAIN BagOfCall(c) =>
           ListRequest(c).url = baseUrl \o DocumentedPath(calls[c].name, IdOfCall(c))
      /\ \A i \in 1..Len(ListRequest(c).query) : ListRequest(c).query[i][1] \in QueryKeys
      /\ IF GaveFilter(BagOfCall(c))
         THEN /\ Cardinality(EntriesOf(ListRequest(c).query, "$filter")) = 1
              /\ ValuesOf(ListRequest(c).query, "$filter") = {BagOfCall(c)["filter"]}
         ELSE EntriesOf(ListRequest(c).query, "$filter") = {}
      /\ ListRequest(c).query = QueryWithoutOtherArguments(c)

\* the history of expense 42 has been asked for with a raw filter and three
\* filter sources: the $filter is the raw filter alone
C27_Witness ==
  \E c \in CallIds :
    /\ calls[c].name = "get_expense_status_history"
    /\ {"id", "filter", "active_only", "user_id", "from_date"} \subseteq DOMAIN BagOfCall(c)
    /\ ListRequest(c).url = baseUrl \o <<"/expenses", "/", "42", "/statusHistory">>
    /\ ValuesOf(ListRequest(c).query, "$filter") = {<<"billable eq true">>}

(***************************************************************************)
(* C28: the query of a get-by-id request                                   *)
(***************************************************************************)
\* the caller gave an expand that is not the empty string
GaveExpand(bag) == "expand" \in DOMAIN bag /\ bag["expand"] # <<>>

\* C28: the request of a get-by-id call is a GET of {basePath}/{id}; its
\* query is the one entry $expand with the caller's expand when the caller
\* gave a non-empty one, and empty otherwise, whatever else the bag holds.
C28_ByIdQueryIsExpandOnly ==
  \A c \in CallIds :
    Started(c) /\ calls[c].name \in GetByIdTools /\ RequestsOf(c) # {} =>
      /\ ListRequest(c).method = "GET"
      /\ "id" \in DOMAIN BagOfCall(c) =>
           ListRequest(c).url = baseUrl \o DocumentedPath(calls[c].name, IdOfCall(c))
      /\ ListRequest(c).query =
           IF GaveExpand(BagOfCall(c))
           THEN <<<<"$expand", BagOfCall(c)["expand"]>>>>
           ELSE <<>>

\* get_invoice_by_id has been called with expand, top, filter, orderby and
\* active_only: the query is $expand alone
C28_Witness ==
  \E c \in CallIds :
    /\ calls[c].name = "get_invoice_by_id"
    /\ {"id", "expand", "top", "filter", "orderby", "active_only"} \subseteq DOMAIN BagOfCall(c)
    /\ ListRequest(c).url = baseUrl \o <<"/invoices", "/", "42">>
    /\ ListRequest(c).query = <<<<"$expand", <<"customer">>>>>>

(***************************************************************************)
(* C29: no state is carried from one dispatch to the next                  *)
(***************************************************************************)
\* what call c handed to fetch, in order, without the tag of the call
RequestsSent(c) == [i \in 1..Len(RequestSeqOf(c)) |-> RequestSeqOf(c)[i].request]

\* seq starts with prefix
StartsWith(seq, prefix) ==
  Len(seq) >= Len(prefix) /\ SubSeq(seq, 1, Len(prefix)) = prefix

\* calls c and d were given the same name and the same bag
SameCall(c, d) ==
  Started(c) /\ Started(d) /\ calls[c].name = calls[d].name /\ calls[c].args = calls[d].args

\* a step leaves the credential as it was, and the name and the bag of every
\* call that is in flight before and after it
KeepsConfigurationAndBags ==
  /\ apiKey' = apiKey
  /\ \A c \in CallIds :
       calls[c].pc # "idle" /\ calls'[c].pc # "idle" =>
         calls'[c].name = calls[c].name /\ calls'[c].args = calls[c].args

\* C29: no dispatch, settlement or return changes the credential, and every
\* request goes to the one base endpoint; two calls with the same name and
\* bag hand the same request to fetch, whichever came first and whatever
\* happened in between, and given the same response they end with the same
\* envelope; the bag of a call is the same at its end as at its start.
C29_DispatchKeepsNoState ==
  /\ [][KeepsConfigurationAndBags]_vars
  /\ [](\A i \in 1..Len(net) : StartsWith(net[i].request.url, baseUrl))
  /\ [](\A c, d \in CallIds :
         SameCall(c, d) =>
           /\ RequestsSent(c) = RequestsSent(d)
           /\ Done(c) /\ Done(d) /\ calls[c].outcome = calls[d].outcome =>
                calls[c].result = calls[d].result)

\* delete_project 42 was called twice, the second after the first, both
\* were answered 200: same request, same envelope
C29_Witness ==
  \E c, d \in CallIds :
    /\ c # d /\ SameCall(c, d)
    /\ calls[c].name = "delete_project" /\ calls[c].args = <<[id |-> 42]>>
    /\ \E i \in RequestsOf(c), j \in RequestsOf(d) : i < j
    /\ Done(c) /\ Done(d) /\ GotResponse(c) /\ calls[c].outcome = calls[d].outcome
    /\ SuccessStatus(c)
    /\ RequestsSent(c) = RequestsSent(d) /\ calls[c].result = calls[d].result

(***************************************************************************)
(* Calls in flight together when a remote service may never answer: fetch  *)
(* is awaited with no timeout and no abort signal, so the first call slot  *)
(* may wait for ever; the fetch of every other slot settles at some time   *)
(***************************************************************************)
\* the call slots whose fetch may never settle
Unanswered == {c \in CallIds : c = 1}

Answered == CallIds \ Unanswered

SpecUnanswered ==
  /\ Init
  /\ [][ConcurrentNext]_vars
  /\ \A c \in Answered : WF_vars(ConcurrentSettle(c))

(***************************************************************************)
(* C30: termination of a dispatch                                          *)
(***************************************************************************)
\* a step takes a call out of its wait only by settling its own fetch:
\* nothing times out and nothing is cancelled
LeavesWaitOnlyBySettling ==
  \A c \in CallIds :
    calls[c].pc = "awaiting" /\ calls'[c].pc # "awaiting" =>
      /\ calls'[c].pc = "done"
      /\ calls'[c].outcome # <<>>
      /\ calls'[c].outcome[1] \in ConcurrentOutcomes

====
